---- MODULE Spec2Model ----
(***************************************************************************)
(* A model of lc (src/src/main.rs): the recursive line/byte counter        *)
(* linecount, the tree renderer linecount_verbose, the threaded variant    *)
(* linecount_verbose_async and the classifier Content::content_type.       *)
(*                                                                         *)
(* File contents are sequences of bytes, names and decoded strings are     *)
(* sequences of Unicode code points, paths are sequences of names.         *)
(***************************************************************************)
EXTENDS Integers, Sequences, FiniteSets, TLC

VARIABLES
    fs,             \* the directory tree: path -> node (never mutated)
    mode,           \* which entry point main() dispatches to
    byte_toggle,    \* -b
    ignore_toggle,  \* passed down by main(), always true there
    stack,          \* thread id -> call stack of linecount / linecount_verbose
    out,            \* standard output: the lines println! has emitted
    log,            \* standard error: the paths eprintln! reported as skipped
    ret,            \* thread id -> what the thread's outermost call returned
    acc,            \* the Arc<Mutex<u128>> accumulators of the async variant
    apc,            \* position of linecount_verbose_async's body
    handles,        \* the JoinHandles pushed so far, in order
    tpc,            \* thread id -> position of the spawned closure
    aresult,        \* what linecount_verbose_async returned
    lc_ret,         \* what linecount returned before linecount_verbose is run
    bytes_in,       \* single-file measurement: the file's bytes
    measured,       \* single-file measurement: what the loop body added
    cin,            \* classifier input
    cout            \* classifier output

vars == <<fs, mode, byte_toggle, ignore_toggle, stack, out, log, ret,
          acc, apc, handles, tpc, aresult, lc_ret, bytes_in, measured, cin,
          cout>>

treeVars == <<fs, mode, byte_toggle, ignore_toggle, stack, out, log, ret,
              acc, apc, handles, tpc, aresult, lc_ret>>
fileVars == <<bytes_in, measured>>
classVars == <<cin, cout>>

None == "none"

(***************************************************************************)
(* Bounds of the model.                                                    *)
(***************************************************************************)
MaxLen == 4         \* longest file content enumerated by SpecFile
MaxFaults == 1      \* how many entries of a tree may fail at once

(***************************************************************************)
(* Bytes and characters.                                                   *)
(***************************************************************************)
LF == 10
CR == 13
DOT == 46
SLASH == 47
REPLACEMENT == 65533

\* s[i..] as a sequence
Drop(s, n) == SubSeq(s, n + 1, Len(s))

RECURSIVE SeqsUpTo(_, _)
SeqsUpTo(S, n) ==
    IF n = 0 THEN {<<>>}
    ELSE LET shorter == SeqsUpTo(S, n - 1)
         IN  shorter \cup {Append(s, x) : s \in shorter, x \in S}

(***************************************************************************)
(* String::from_utf8_lossy: every maximal ill-formed subpart of the input  *)
(* becomes one U+FFFD, everything else decodes as UTF-8.                   *)
(***************************************************************************)
SafeGet(b, i) == IF i <= Len(b) THEN b[i] ELSE 0

IsCont(x) == x >= 128 /\ x <= 191

Utf8CharWidth(x) ==
    IF x < 128 THEN 1
    ELSE IF x >= 194 /\ x <= 223 THEN 2
    ELSE IF x >= 224 /\ x <= 239 THEN 3
    ELSE IF x >= 240 /\ x <= 244 THEN 4
    ELSE 0

Second3Ok(b0, b1) ==
    \/ b0 = 224 /\ b1 >= 160 /\ b1 <= 191
    \/ b0 >= 225 /\ b0 <= 236 /\ b1 >= 128 /\ b1 <= 191
    \/ b0 = 237 /\ b1 >= 128 /\ b1 <= 159
    \/ b0 >= 238 /\ b0 <= 239 /\ b1 >= 128 /\ b1 <= 191

Second4Ok(b0, b1) ==
    \/ b0 = 240 /\ b1 >= 144 /\ b1 <= 191
    \/ b0 >= 241 /\ b0 <= 243 /\ b1 >= 128 /\ b1 <= 191
    \/ b0 = 244 /\ b1 >= 128 /\ b1 <= 143

\* The character at the head of b: [cp |-> code point, n |-> bytes consumed].
DecodeHead(b) ==
    LET b0 == b[1]
        b1 == SafeGet(b, 2)
        b2 == SafeGet(b, 3)
        b3 == SafeGet(b, 4)
        w  == Utf8CharWidth(b0)
        Bad(n) == [cp |-> REPLACEMENT, n |-> n]
    IN  CASE w = 1 -> [cp |-> b0, n |-> 1]
          [] w = 2 -> IF IsCont(b1)
                      THEN [cp |-> (b0 - 192) * 64 + (b1 - 128), n |-> 2]
                      ELSE Bad(1)
          [] w = 3 -> IF ~Second3Ok(b0, b1) THEN Bad(1)
                      ELSE IF ~IsCont(b2) THEN Bad(2)
                      ELSE [cp |-> (b0 - 224) * 4096 + (b1 - 128) * 64 + (b2 - 128),
                            n |-> 3]
          [] w = 4 -> IF ~Second4Ok(b0, b1) THEN Bad(1)
                      ELSE IF ~IsCont(b2) THEN Bad(2)
                      ELSE IF ~IsCont(b3) THEN Bad(3)
                      ELSE [cp |-> (b0 - 240) * 262144 + (b1 - 128) * 4096
                                   + (b2 - 128) * 64 + (b3 - 128),
                            n |-> 4]
          [] OTHER -> Bad(1)

RECURSIVE FromUtf8Lossy(_)
FromUtf8Lossy(b) ==
    IF b = <<>> THEN <<>>
    ELSE LET h == DecodeHead(b)
         IN  <<h.cp>> \o FromUtf8Lossy(Drop(b, h.n))

\* the length of a character's UTF-8 encoding
LenUtf8(cp) ==
    IF cp < 128 THEN 1 ELSE IF cp < 2048 THEN 2 ELSE IF cp < 65536 THEN 3 ELSE 4

\* str::as_bytes().len()
RECURSIVE AsBytesLen(_)
AsBytesLen(s) == IF s = <<>> THEN 0 ELSE LenUtf8(Head(s)) + AsBytesLen(Tail(s))

\* str::as_bytes(): the UTF-8 encoding of a string
EncodeChar(cp) ==
    IF cp < 128 THEN <<cp>>
    ELSE IF cp < 2048 THEN <<192 + (cp \div 64), 128 + (cp % 64)>>
    ELSE IF cp < 65536
         THEN <<224 + (cp \div 4096), 128 + ((cp \div 64) % 64), 128 + (cp % 64)>>
    ELSE <<240 + (cp \div 262144), 128 + ((cp \div 4096) % 64),
           128 + ((cp \div 64) % 64), 128 + (cp % 64)>>

RECURSIVE AsBytes(_)
AsBytes(s) == IF s = <<>> THEN <<>> ELSE EncodeChar(Head(s)) \o AsBytes(Tail(s))

(***************************************************************************)
(* str::lines(): the segments ended by "\n" (a "\r" before it is dropped   *)
(* with it), plus the last segment when it is not empty.                   *)
(***************************************************************************)
StripCR(line) ==
    IF line # <<>> /\ line[Len(line)] = CR
    THEN SubSeq(line, 1, Len(line) - 1)
    ELSE line

\* a buggy variant: str::split('\n'), which yields a last empty piece after a
\* final terminator
RECURSIVE SplitFrom(_, _, _)
SplitFrom(s, i, cur) ==
    IF i > Len(s) THEN <<cur>>
    ELSE IF s[i] = LF THEN <<StripCR(cur)>> \o SplitFrom(s, i + 1, <<>>)
    ELSE SplitFrom(s, i + 1, Append(cur, s[i]))

RECURSIVE LinesFrom(_, _, _)
LinesFrom(s, i, cur) ==
    IF i > Len(s) THEN (IF cur = <<>> THEN <<>> ELSE <<cur>>)
    ELSE IF s[i] = LF THEN <<StripCR(cur)>> \o LinesFrom(s, i + 1, <<>>)
    ELSE LinesFrom(s, i + 1, Append(cur, s[i]))

LinesSplit(s) == IF s = <<>> THEN <<>> ELSE SplitFrom(s, 1, <<>>)

Lines(s) == LinesFrom(s, 1, <<>>)

(***************************************************************************)
(* What the loop body adds to (total_lines, total_bytes) for one file.     *)
(***************************************************************************)
\* a buggy variant: the bytes of the file on disk, not of the decoded string
FileMeasureRaw(raw, bt) ==
    [lines |-> Len(Lines(FromUtf8Lossy(raw))),
     bytes |-> IF bt THEN Len(raw) ELSE 0]

FileMeasure(raw, bt) ==
    LET content == FromUtf8Lossy(raw)
    IN  [lines |-> Len(Lines(content)),
         bytes |-> IF bt THEN AsBytesLen(content) ELSE 0]

(***************************************************************************)
(* The directory tree.  A path is the sequence of names below the root,    *)
(* the root is <<>>.  A node is a regular file (ok: fs::read succeeds), a  *)
(* directory (ok: fs::read_dir succeeds) or a dangling symbolic link       *)
(* (fs::metadata fails, Path::is_file and Path::exists are false).         *)
(***************************************************************************)
nA == <<97>>                                            \* "a"
nB == <<98>>                                            \* "b"
nC == <<99>>                                            \* "c"
nD == <<100>>                                           \* "d"
nE == <<101>>                                           \* "e"
nS == <<DOT, 115>>                                      \* ".s"
nGitignore == <<DOT, 103, 105, 116, 105, 103, 110, 111, 114, 101>>  \* ".gitignore"

Root == <<>>

FileSlots == { <<nA>>, <<nGitignore>>, <<nD, nB>>, <<nD, nC>>,
               <<nD, nE, nA>>, <<nS, nGitignore>> }
DirSlots  == { <<nD>>, <<nD, nE>>, <<nS>> }
Paths     == {Root} \cup FileSlots \cup DirSlots

Absent   == [kind |-> "absent", raw |-> <<>>, ok |-> FALSE]
Dangling == [kind |-> "dangling", raw |-> <<>>, ok |-> FALSE]
File(raw, ok) == [kind |-> "file", raw |-> raw, ok |-> ok]
Dir(ok) == [kind |-> "dir", raw |-> <<>>, ok |-> ok]

\* the contents a file slot may have
Contents(p) ==
    CASE p = <<nA>>         -> { <<97, LF, 98, LF, 99, LF>> }       \* "a\nb\nc\n"
      [] p = <<nGitignore>> -> { <<SLASH, 97, LF, 100, LF>>,        \* "/a\nd\n"
                                 <<255, LF>> }                      \* not UTF-8
      [] p = <<nD, nB>>     -> { <<104, 105, LF>> }                 \* "hi\n"
      [] p = <<nD, nC>>     -> { <<97, CR, LF, 98>> }               \* "a\r\nb"
      [] p = <<nD, nE, nA>> -> { <<255, LF, 195, 169>> }            \* \xff "\n" e-acute
      [] p = <<nS, nGitignore>> -> { <<120, LF, LF>>,               \* "x\n\n"
                                     <<195, LF>> }                  \* not UTF-8

Parent(p) == SubSeq(p, 1, Len(p) - 1)
FileName(p) == p[Len(p)]

IsFaulty(n) == n.kind = "dangling" \/ (n.kind \in {"file", "dir"} /\ ~n.ok)

\* the slots that hold a file whenever their directory can be listed
Mandatory == { <<nD, nB>>, <<nD, nE, nA>>, <<nS, nGitignore>> }

\* A directory that cannot be listed (no read permission) still holds its
\* mandatory file, which can be reached by path but is never listed.
FileOptions(p, parent) ==
    IF parent.kind = "dir" /\ parent.ok
    THEN (IF p \in Mandatory THEN {} ELSE {Absent})
         \cup {Dangling}
         \cup {File(c, TRUE) : c \in Contents(p)}
         \cup {File(CHOOSE c \in Contents(p) : c # <<>>, FALSE)}
    ELSE IF parent.kind = "dir" /\ p \in Mandatory
    THEN {File(CHOOSE c \in Contents(p) : \A c2 \in Contents(p) : c[1] <= c2[1],
               TRUE)}
    ELSE {Absent}

DirOptions(parent) ==
    IF parent.kind = "dir" /\ parent.ok
    THEN {Absent, Dir(TRUE), Dir(FALSE)}
    ELSE {Absent}

Faults(tree) == Cardinality({p \in DOMAIN tree : IsFaulty(tree[p])})

TreeOf(r, d, s, e, fa, fg, fb, fc, fe, fsa) ==
    (Root :> r) @@ (<<nD>> :> d) @@ (<<nS>> :> s) @@ (<<nD, nE>> :> e)
    @@ (<<nA>> :> fa) @@ (<<nGitignore>> :> fg) @@ (<<nD, nB>> :> fb)
    @@ (<<nD, nC>> :> fc) @@ (<<nD, nE, nA>> :> fe) @@ (<<nS, nGitignore>> :> fsa)

\* fs is any tree over the slots with at most MaxFaults failing entries
InitTree ==
    \E r \in {Dir(TRUE), Dir(FALSE)} :
    \E d \in DirOptions(r), s \in DirOptions(r) :
    \E e \in DirOptions(d) :
    \E fa \in FileOptions(<<nA>>, r), fg \in FileOptions(<<nGitignore>>, r),
       fb \in FileOptions(<<nD, nB>>, d), fc \in FileOptions(<<nD, nC>>, d),
       fe \in FileOptions(<<nD, nE, nA>>, e), fsa \in FileOptions(<<nS, nGitignore>>, s) :
        LET t == TreeOf(r, d, s, e, fa, fg, fb, fc, fe, fsa)
        IN  /\ Faults(t) <= MaxFaults
            /\ fs = t

\* what fs::read_dir(p) lists
Children(p) ==
    {q \in Paths : Len(q) = Len(p) + 1 /\ Parent(q) = p /\ fs[q].kind # "absent"}

\* Path::is_file, Path::exists (both follow symbolic links)
IsFile(p) == fs[p].kind = "file"
Exists(p) == p \in Paths /\ fs[p].kind \in {"file", "dir"}

\* Visible::is_visible
is_visible(p) == FileName(p)[1] # DOT

(***************************************************************************)
(* Vec<PathBuf>::sort: siblings ordered by name, byte by byte.             *)
(***************************************************************************)
RECURSIVE NameLess(_, _)
NameLess(a, b) ==
    IF b = <<>> THEN FALSE
    ELSE IF a = <<>> THEN TRUE
    ELSE IF Head(a) # Head(b) THEN Head(a) < Head(b)
    ELSE NameLess(Tail(a), Tail(b))

RECURSIVE SortedSeq(_)
SortedSeq(S) ==
    IF S = {} THEN <<>>
    ELSE LET m == CHOOSE x \in S :
                    \A y \in S \ {x} : NameLess(FileName(x), FileName(y))
         IN  <<m>> \o SortedSeq(S \ {m})

(***************************************************************************)
(* fetch_gitignore                                                         *)
(***************************************************************************)
ErrResult == [kind |-> "err", lines |-> 0, bytes |-> 0]
PanicResult == [kind |-> "panic", lines |-> 0, bytes |-> 0]
NoResult == [kind |-> "none", lines |-> 0, bytes |-> 0]
Ok(l, b) == [kind |-> "ok", lines |-> l, bytes |-> b]

\* fs::read_to_string: the file must be readable and valid UTF-8
ReadToStringOk(p) ==
    /\ fs[p].kind = "file"
    /\ fs[p].ok
    /\ AsBytes(FromUtf8Lossy(fs[p].raw)) = fs[p].raw

StripSlash(value) == IF value # <<>> /\ value[1] = SLASH THEN Tail(value) ELSE value

\* [ok |-> whether it returned Ok, list |-> list_to_ignore]
fetch_gitignore(p) ==
    LET gitignore == Append(p, nGitignore)
    IN  IF ~Exists(gitignore) THEN [ok |-> TRUE, list |-> <<>>]
        ELSE IF ~ReadToStringOk(gitignore) THEN [ok |-> FALSE, list |-> <<>>]
        ELSE LET ls == Lines(FromUtf8Lossy(fs[gitignore].raw))
             IN  [ok |-> TRUE, list |-> [i \in 1..Len(ls) |-> StripSlash(ls[i])]]

Contains(list, x) == \E i \in 1..Len(list) : list[i] = x

(***************************************************************************)
(* Call stacks.  A frame is one activation of linecount or                 *)
(* linecount_verbose: the directory, the entries still to visit (linecount *)
(* visits them in the order read_dir lists them, which is any order;       *)
(* linecount_verbose in the order of sorted_entries), and the running      *)
(* totals.                                                                 *)
(***************************************************************************)
ThreadIds == {Root} \cup {p \in DirSlots : Len(p) = 1}

result == ret[Root]

Top(t) == stack[t][Len(stack[t])]
Pop(t) == SubSeq(stack[t], 1, Len(stack[t]) - 1)
SetTop(t, f) == [stack EXCEPT ![t] = Append(Pop(t), f)]
\* replace the top frame by f and push g
PushOn(t, f, g) == [stack EXCEPT ![t] = Append(Append(Pop(t), f), g)]
\* pop the top frame and replace the caller's frame by f
ReturnTo(t, f) ==
    [stack EXCEPT ![t] = Append(SubSeq(stack[t], 1, Len(stack[t]) - 2), f)]

Running(t) == stack[t] # <<>>

LcFrame(p) ==
    [dir |-> p, todo |-> Children(p), seq |-> <<>>, idx |-> 0,
     lines |-> 0, bytes |-> 0, ignore |-> <<>>]

HeaderLine(p) == [kind |-> "dir", path |-> p, lines |-> 0, bytes |-> 0]
FileLine(p, m) == [kind |-> "file", path |-> p, lines |-> m.lines, bytes |-> m.bytes]

(***************************************************************************)
(* linecount (silent aggregate)                                            *)
(***************************************************************************)
\* entry of linecount(root): fs::read_dir(dir_path)?
LcStart ==
    /\ mode = "silent"
    /\ ~Running(Root) /\ result = NoResult
    /\ IF fs[Root].ok
       THEN /\ stack' = [stack EXCEPT ![Root] = <<LcFrame(Root)>>]
            /\ UNCHANGED ret
       ELSE /\ ret' = [ret EXCEPT ![Root] = ErrResult]
            /\ UNCHANGED stack
    /\ UNCHANGED <<fs, mode, byte_toggle, ignore_toggle, out, log, acc, apc,
                   handles, tpc, aresult, fileVars, classVars, lc_ret>>

\* the totals after a file has been counted
LcCount(f, e) ==
    LET m == FileMeasure(fs[e].raw, byte_toggle)
    IN  [f EXCEPT !.todo = @ \ {e},
                  !.lines = @ + m.lines,
                  !.bytes = @ + m.bytes]

\* metadata.is_file(): read and count the file
LcFile ==
    /\ mode = "silent" /\ Running(Root)
    /\ \E e \in Top(Root).todo :
        /\ fs[e].kind = "file" /\ fs[e].ok
        /\ stack' = SetTop(Root, LcCount(Top(Root), e))
    /\ UNCHANGED <<fs, mode, byte_toggle, ignore_toggle, out, log, ret, acc, apc,
                   handles, tpc, aresult, fileVars, classVars, lc_ret>>

\* a buggy variant: the failure is contained at the entry, which is left out
LcFailContained ==
    /\ mode = "silent" /\ Running(Root)
    /\ \E e \in Top(Root).todo :
        /\ \/ fs[e].kind = "dangling"
           \/ fs[e].kind = "file" /\ ~fs[e].ok
        /\ stack' = SetTop(Root, [Top(Root) EXCEPT !.todo = @ \ {e}])
        /\ log' = log \cup {e}
    /\ UNCHANGED <<fs, mode, byte_toggle, ignore_toggle, out, ret, acc, apc,
                   handles, tpc, aresult, fileVars, classVars, lc_ret>>

\* fs::metadata(path)? or fs::read(&entry)? fails: this call returns Err; the
\* caller logs the directory and goes on, main() gets the Err of the root call
LcFail ==
    /\ mode = "silent" /\ Running(Root)
    /\ \E e \in Top(Root).todo :
        \/ fs[e].kind = "dangling"
        \/ fs[e].kind = "file" /\ ~fs[e].ok
    /\ stack' = [stack EXCEPT ![Root] = Pop(Root)]
    /\ IF Len(stack[Root]) = 1
       THEN /\ ret' = [ret EXCEPT ![Root] = ErrResult]
            /\ UNCHANGED log
       ELSE /\ log' = log \cup {Top(Root).dir}
            /\ UNCHANGED ret
    /\ UNCHANGED <<fs, mode, byte_toggle, ignore_toggle, out, acc, apc,
                   handles, tpc, aresult, fileVars, classVars, lc_ret>>

\* metadata.is_dir(): the recursive call lists the directory
LcDir ==
    /\ mode = "silent" /\ Running(Root)
    /\ \E e \in Top(Root).todo :
        /\ fs[e].kind = "dir" /\ fs[e].ok
        /\ stack' = PushOn(Root, [Top(Root) EXCEPT !.todo = @ \ {e}], LcFrame(e))
    /\ UNCHANGED <<fs, mode, byte_toggle, ignore_toggle, out, log, ret, acc, apc,
                   handles, tpc, aresult, fileVars, classVars, lc_ret>>

\* a buggy variant: the Err of the recursive call is passed on (fail-fast)
LcSkipPropagates ==
    /\ mode = "silent" /\ Running(Root)
    /\ \E e \in Top(Root).todo : fs[e].kind = "dir" /\ ~fs[e].ok
    /\ stack' = [stack EXCEPT ![Root] = Pop(Root)]
    /\ IF Len(stack[Root]) = 1
       THEN /\ ret' = [ret EXCEPT ![Root] = ErrResult]
            /\ UNCHANGED log
       ELSE /\ log' = log \cup {Top(Root).dir}
            /\ UNCHANGED ret
    /\ UNCHANGED <<fs, mode, byte_toggle, ignore_toggle, out, acc, apc,
                   handles, tpc, aresult, fileVars, classVars, lc_ret>>

\* the recursive call fails in fs::read_dir: Err(err) => eprintln, continue
LcSkip ==
    /\ mode = "silent" /\ Running(Root)
    /\ \E e \in Top(Root).todo :
        /\ fs[e].kind = "dir" /\ ~fs[e].ok
        /\ stack' = SetTop(Root, [Top(Root) EXCEPT !.todo = @ \ {e}])
        /\ log' = log \cup {e}
    /\ UNCHANGED <<fs, mode, byte_toggle, ignore_toggle, out, ret, acc, apc,
                   handles, tpc, aresult, fileVars, classVars, lc_ret>>

\* a buggy variant: the child's totals are dropped
LcMergeDropped(parent, child) == parent

\* total_lines += linecount.0; total_bytes += linecount.1
LcMerge(parent, child) ==
    [parent EXCEPT !.lines = @ + child.lines, !.bytes = @ + child.bytes]

\* the loop is over: Ok((total_lines, total_bytes))
LcReturn ==
    /\ mode = "silent" /\ Running(Root)
    /\ Top(Root).todo = {}
    /\ IF Len(stack[Root]) = 1
       THEN /\ ret' = [ret EXCEPT ![Root] = Ok(Top(Root).lines, Top(Root).bytes)]
            /\ stack' = [stack EXCEPT ![Root] = <<>>]
       ELSE /\ stack' = ReturnTo(Root, LcMerge(stack[Root][Len(stack[Root]) - 1],
                                               Top(Root)))
            /\ UNCHANGED ret
    /\ UNCHANGED <<fs, mode, byte_toggle, ignore_toggle, out, log, acc, apc,
                   handles, tpc, aresult, fileVars, classVars, lc_ret>>

(***************************************************************************)
(* linecount_verbose (rendered tree), run by thread t                      *)
(***************************************************************************)
\* a buggy order: directories before files
dirs_then_files(p) ==
    LET files == {e \in Children(p) : IsFile(e)}
        dirs  == Children(p) \ files
    IN  SortedSeq(dirs) \o SortedSeq(files)

\* files.sort(); dirs.sort(); files.iter().chain(dirs.iter())
sorted_entries(p) ==
    LET files == {e \in Children(p) : IsFile(e)}
        dirs  == Children(p) \ files
    IN  SortedSeq(files) \o SortedSeq(dirs)

VFrame(p, ignore_vec) ==
    [dir |-> p, todo |-> {}, seq |-> sorted_entries(p), idx |-> 1,
     lines |-> 0, bytes |-> 0, ignore |-> ignore_vec]

\* The head of linecount_verbose(p): fetch_gitignore(&dir_path)? returns Err
\* before anything is printed; then the header line is printed; then
\* fs::read_dir(dir_path).expect(..) panics when the directory cannot be listed.
Enter(p) ==
    LET g == fetch_gitignore(p)
    IN  IF ~g.ok THEN "err"
        ELSE IF ~(fs[p].kind = "dir" /\ fs[p].ok) THEN "panic"
        ELSE "listed"

Entry(t) == Top(t).seq[Top(t).idx]
\* thread t is inside linecount_verbose (the main thread is while it is not
\* inside linecount_verbose_async) and the process has not ended
VRunning(t) ==
    /\ mode \in {"verbose", "async"} /\ Running(t)
    /\ aresult = NoResult
    /\ t = Root => apc = "idle"
AtEntry(t) == VRunning(t) /\ Top(t).idx <= Len(Top(t).seq)
Advance(f) == [f EXCEPT !.idx = @ + 1]

\* the outermost call of thread t returns v
Finish(t, v) ==
    /\ ret' = [ret EXCEPT ![t] = v]
    /\ stack' = [stack EXCEPT ![t] = <<>>]

VStart ==
    /\ mode \in {"verbose", "async"}
    /\ ~Running(Root) /\ result = NoResult
    /\ CASE Enter(Root) = "err" ->
                /\ ret' = [ret EXCEPT ![Root] = ErrResult]
                /\ UNCHANGED <<stack, out>>
         [] Enter(Root) = "panic" ->
                /\ out' = Append(out, HeaderLine(Root))
                /\ ret' = [ret EXCEPT ![Root] = PanicResult]
                /\ UNCHANGED stack
         [] Enter(Root) = "listed" ->
                /\ out' = Append(out, HeaderLine(Root))
                /\ stack' = [stack EXCEPT ![Root] =
                                <<VFrame(Root, fetch_gitignore(Root).list)>>]
                /\ UNCHANGED ret
    /\ UNCHANGED <<fs, mode, byte_toggle, ignore_toggle, log, acc, apc,
                   handles, tpc, aresult, fileVars, classVars, lc_ret>>

\* counting moved under the condition that prints the file
VCountPrinted(f, e) ==
    LET m == FileMeasure(fs[e].raw, byte_toggle)
        shown == is_visible(e) /\ ~Contains(f.ignore, FileName(e))
    IN  IF shown
        THEN [f EXCEPT !.idx = @ + 1, !.lines = @ + m.lines, !.bytes = @ + m.bytes]
        ELSE [f EXCEPT !.idx = @ + 1]

\* total_lines += file_linecount; if byte_toggle { total_bytes += file_bytes }
VCount(f, e) ==
    LET m == FileMeasure(fs[e].raw, byte_toggle)
    IN  [f EXCEPT !.idx = @ + 1, !.lines = @ + m.lines, !.bytes = @ + m.bytes]

\* entry.is_visible() && !ignore_vec.contains(file name)
Printed(f, e) == is_visible(e) /\ ~Contains(f.ignore, FileName(e))

\* filetype.is_file(): read, count and print the file
VFile(t) ==
    /\ AtEntry(t)
    /\ fs[Entry(t)].kind = "file" /\ fs[Entry(t)].ok
    /\ stack' = SetTop(t, VCount(Top(t), Entry(t)))
    /\ out' = IF Printed(Top(t), Entry(t))
              THEN Append(out, FileLine(Entry(t),
                                        FileMeasure(fs[Entry(t)].raw, byte_toggle)))
              ELSE out
    /\ UNCHANGED <<fs, mode, byte_toggle, ignore_toggle, log, ret, acc, apc,
                   handles, tpc, aresult, fileVars, classVars, lc_ret>>

\* fs::metadata(path)? or fs::read(&path)? fails: this call returns Err; the
\* caller's recursive_lc.is_err() makes it continue with its next entry
VFail(t) ==
    /\ AtEntry(t)
    /\ \/ fs[Entry(t)].kind = "dangling"
       \/ fs[Entry(t)].kind = "file" /\ ~fs[Entry(t)].ok
    /\ IF Len(stack[t]) = 1
       THEN Finish(t, ErrResult)
       ELSE /\ stack' = [stack EXCEPT ![t] = Pop(t)]
            /\ UNCHANGED ret
    /\ UNCHANGED <<fs, mode, byte_toggle, ignore_toggle, out, log, acc, apc,
                   handles, tpc, aresult, fileVars, classVars, lc_ret>>

\* filetype.is_dir(): the recursive call prints the header and lists the directory
VDir(t) ==
    /\ AtEntry(t)
    /\ fs[Entry(t)].kind = "dir" /\ Enter(Entry(t)) = "listed"
    /\ out' = Append(out, HeaderLine(Entry(t)))
    /\ stack' = PushOn(t, Advance(Top(t)),
                       VFrame(Entry(t), fetch_gitignore(Entry(t)).list))
    /\ UNCHANGED <<fs, mode, byte_toggle, ignore_toggle, log, ret, acc, apc,
                   handles, tpc, aresult, fileVars, classVars, lc_ret>>

\* the recursive call returns Err from fetch_gitignore: continue
VDirErr(t) ==
    /\ AtEntry(t)
    /\ fs[Entry(t)].kind = "dir" /\ Enter(Entry(t)) = "err"
    /\ stack' = SetTop(t, Advance(Top(t)))
    /\ UNCHANGED <<fs, mode, byte_toggle, ignore_toggle, out, log, ret, acc, apc,
                   handles, tpc, aresult, fileVars, classVars, lc_ret>>

\* the recursive call prints the header and panics in
\* fs::read_dir(dir_path).expect("Failed to read directory"): the thread unwinds
VPanic(t) ==
    /\ AtEntry(t)
    /\ fs[Entry(t)].kind = "dir" /\ Enter(Entry(t)) = "panic"
    /\ out' = Append(out, HeaderLine(Entry(t)))
    /\ Finish(t, PanicResult)
    /\ UNCHANGED <<fs, mode, byte_toggle, ignore_toggle, log, acc, apc,
                   handles, tpc, aresult, fileVars, classVars, lc_ret>>

\* total_lines += recursive_lc.0; if byte_toggle { total_bytes += recursive_lc.1 }
VMerge(parent, child) ==
    [parent EXCEPT !.lines = @ + child.lines,
                   !.bytes = IF byte_toggle THEN @ + child.bytes ELSE @]

\* the loop is over: Ok((total_lines, total_bytes))
VReturn(t) ==
    /\ VRunning(t) /\ ~AtEntry(t)
    /\ IF Len(stack[t]) = 1
       THEN Finish(t, Ok(Top(t).lines, Top(t).bytes))
       ELSE /\ stack' = ReturnTo(t, VMerge(stack[t][Len(stack[t]) - 1], Top(t)))
            /\ UNCHANGED ret
    /\ UNCHANGED <<fs, mode, byte_toggle, ignore_toggle, out, log, acc, apc,
                   handles, tpc, aresult, fileVars, classVars, lc_ret>>

(***************************************************************************)
(* main() running linecount or linecount_verbose on a tree                 *)
(***************************************************************************)
IdleFile == bytes_in = <<>> /\ measured = NoResult
IdleClass == cin = [name |-> "", ext_utf8 |-> TRUE, exec |-> "false"] /\ cout = None
IdleAsync ==
    /\ acc = [lines |-> 0, bytes |-> 0]
    /\ apc = "idle"
    /\ handles = <<>>
    /\ tpc = [t \in ThreadIds |-> "idle"]
    /\ aresult = NoResult

InitRun ==
    /\ InitTree
    /\ byte_toggle \in BOOLEAN
    /\ ignore_toggle \in BOOLEAN
    /\ stack = [t \in ThreadIds |-> <<>>]
    /\ ret = [t \in ThreadIds |-> NoResult]
    /\ out = <<>>
    /\ log = {}
    /\ lc_ret = NoResult
    /\ IdleAsync /\ IdleFile /\ IdleClass

Init ==
    /\ mode \in {"silent", "verbose"}
    /\ InitRun

Next ==
    \/ LcStart \/ LcFile \/ LcFail \/ LcDir \/ LcSkip \/ LcReturn
    \/ VStart \/ VFile(Root) \/ VFail(Root) \/ VDir(Root) \/ VDirErr(Root)
    \/ VPanic(Root) \/ VReturn(Root)

Spec == Init /\ [][Next]_vars

(***************************************************************************)
(* What the claims speak of.                                               *)
(***************************************************************************)
\* every ancestor of p is a directory that can be listed
Reachable(p) ==
    \A k \in 0..(Len(p) - 1) :
        fs[SubSeq(p, 1, k)].kind = "dir" /\ fs[SubSeq(p, 1, k)].ok

IsPrefix(d, p) == Len(d) <= Len(p) /\ SubSeq(p, 1, Len(d)) = d
Under(p, d) == Len(d) < Len(p) /\ IsPrefix(d, p)

\* the regular files a traversal from the root can reach
AllFiles == {p \in FileSlots : fs[p].kind = "file" /\ Reachable(p)}

\* the line count of a file, from its bytes: one per terminator, and one for
\* an unterminated non-empty tail
LineCount(raw) ==
    Cardinality({i \in 1..Len(raw) : raw[i] = LF})
    + (IF raw # <<>> /\ raw[Len(raw)] # LF THEN 1 ELSE 0)

RECURSIVE SumLines(_)
SumLines(S) ==
    IF S = {} THEN 0
    ELSE LET p == CHOOSE q \in S : TRUE
         IN  LineCount(fs[p].raw) + SumLines(S \ {p})

\* the size of the files on disk
RECURSIVE SumRawBytes(_)
SumRawBytes(S) ==
    IF S = {} THEN 0
    ELSE LET p == CHOOSE q \in S : TRUE
         IN  Len(fs[p].raw) + SumRawBytes(S \ {p})

\* the size of the files once decoded with U+FFFD for what is not UTF-8
RECURSIVE SumDecodedBytes(_)
SumDecodedBytes(S) ==
    IF S = {} THEN 0
    ELSE LET p == CHOOSE q \in S : TRUE
         IN  Len(AsBytes(FromUtf8Lossy(fs[p].raw))) + SumDecodedBytes(S \ {p})

Finished == result # NoResult

\* no entry of the tree fails
NoFault == Faults(fs) = 0

\* every .gitignore is text
GitignoresValid ==
    \A p \in FileSlots :
        (FileName(p) = nGitignore /\ fs[p].kind = "file")
            => AsBytes(FromUtf8Lossy(fs[p].raw)) = fs[p].raw

\* p is the one entry that fails
OnlyFault(p) == IsFaulty(fs[p]) /\ \A q \in Paths \ {p} : ~IsFaulty(fs[q])

\* C1: on a tree without failing entries linecount returns Ok and lines is the
\* sum of the line counts of all regular files below the root, for every
\* byte_toggle and ignore_toggle
C1_LinecountSumsAllFiles ==
    (mode = "silent" /\ Finished /\ NoFault)
        => /\ result.kind = "ok"
           /\ result.lines = SumLines(AllFiles)

C1_Witness ==
    /\ mode = "silent" /\ NoFault
    /\ fs[<<nA>>].kind = "file" /\ fs[<<nD, nC>>].kind = "file"
    /\ fs[<<nD, nE, nA>>].kind = "file" /\ fs[<<nS>>].kind = "dir"
    /\ result.kind = "ok" /\ result.lines = 10
    /\ byte_toggle /\ ~ignore_toggle

\* C2: with one unlistable subdirectory S of the root and nothing else failing,
\* linecount(root) returns Ok with the totals of everything outside S, in
\* whatever order the root is listed
C2_SkipsUnlistableSubdir ==
    \A S \in {p \in DirSlots : Len(p) = 1} :
        (mode = "silent" /\ Finished /\ fs[S].kind = "dir" /\ OnlyFault(S))
            => /\ result.kind = "ok"
               /\ result.lines = SumLines({p \in AllFiles : ~Under(p, S)})
               /\ result.bytes = (IF byte_toggle
                                  THEN SumDecodedBytes({p \in AllFiles : ~Under(p, S)})
                                  ELSE 0)
               /\ S \in log

C2_Witness ==
    /\ mode = "silent" /\ fs[<<nS>>].kind = "dir" /\ OnlyFault(<<nS>>)
    /\ fs[<<nA>>].kind = "file" /\ fs[<<nD, nE>>].kind = "dir"
    /\ <<nS>> \in log
    /\ result.kind = "ok" /\ result.lines = 8

\* C3 (as claimed): with one unlistable subdirectory below a listable root and
\* nothing else failing, linecount_verbose(root) returns Ok with the totals of
\* the entries that can be read
C3_VerboseSkipsUnlistable ==
    \A S \in DirSlots :
        (mode = "verbose" /\ Finished /\ fs[S].kind = "dir" /\ OnlyFault(S)
         /\ GitignoresValid)
            => /\ result.kind = "ok"
               /\ result.lines = SumLines(AllFiles)

\* C4 (as claimed): with one unreadable file and nothing else failing,
\* linecount(root) returns Ok and only that file is missing from the totals
C4_FileFailureContained ==
    \A f \in FileSlots :
        (mode = "silent" /\ Finished /\ fs[f].kind = "file" /\ OnlyFault(f))
            => /\ result.kind = "ok"
               /\ result.lines = SumLines(AllFiles \ {f})

\* C4 (amended): an unreadable file makes the call on its own directory
\* return Err: linecount(root) returns Err when the file is in the root,
\* otherwise Ok with every file of that directory's subtree left out and the
\* directory logged as skipped
C4_FileFailureSkipsDirectory ==
    \A f \in FileSlots :
        (mode = "silent" /\ Finished /\ fs[f].kind = "file" /\ OnlyFault(f))
            => IF Parent(f) = Root
               THEN result.kind = "err"
               ELSE /\ result.kind = "ok"
                    /\ result.lines =
                         SumLines({p \in AllFiles : ~Under(p, Parent(f))})
                    /\ Parent(f) \in log

C4_Witness ==
    /\ mode = "silent" /\ Finished
    /\ fs[<<nD, nC>>].kind = "file" /\ OnlyFault(<<nD, nC>>)
    /\ fs[<<nD, nE>>].kind = "dir" /\ fs[<<nA>>].kind = "file"
    /\ result.kind = "ok" /\ result.lines = 3

C4_WitnessRoot ==
    /\ mode = "silent" /\ Finished
    /\ fs[<<nA>>].kind = "file" /\ OnlyFault(<<nA>>)
    /\ fs[<<nD>>].kind = "dir"
    /\ result.kind = "err"

\* C6 (as claimed): aggregation returns bytes equal to the sum of the sizes
\* of all regular files below the root
C6_BytesSumOnDisk ==
    (mode \in {"silent", "verbose"} /\ Finished /\ NoFault /\ GitignoresValid)
        => /\ result.kind = "ok"
           /\ result.bytes = SumRawBytes(AllFiles)

\* C6 (amended): with byte_toggle the bytes returned are the sum, over all
\* regular files, of the length of the lossily decoded content (the size on
\* disk when the file is UTF-8); without byte_toggle they are 0
C6_BytesSumDecoded ==
    (mode \in {"silent", "verbose"} /\ Finished /\ NoFault /\ GitignoresValid)
        => /\ result.kind = "ok"
           /\ result.bytes = (IF byte_toggle THEN SumDecodedBytes(AllFiles) ELSE 0)
           /\ result.lines = SumLines(AllFiles)

\* the example of the claim: x.rs "a\nb\nc\n" and sub/y.md "hi\n" give (4, 9)
C6_Witness ==
    /\ byte_toggle /\ NoFault
    /\ AllFiles = { <<nA>>, <<nD, nB>> }
    /\ fs[<<nA>>].raw = <<97, LF, 98, LF, 99, LF>>
    /\ fs[<<nD, nB>>].raw = <<104, 105, LF>>
    /\ result = Ok(4, 9)

(***************************************************************************)
(* The order of the rendered lines.                                        *)
(***************************************************************************)
\* the entry of directory d on the way to p
ChildToward(d, p) == SubSeq(p, 1, Len(d) + 1)

RECURSIVE CommonPrefix(_, _)
CommonPrefix(p, q) ==
    IF p = <<>> \/ q = <<>> \/ Head(p) # Head(q) THEN <<>>
    ELSE <<Head(p)>> \o CommonPrefix(Tail(p), Tail(q))

\* the line of p belongs before the line of q in a depth-first listing with a
\* directory's header first, then its files by name, then its subdirectories
\* by name
Precedes(p, q) ==
    LET c == CommonPrefix(p, q)
        x == ChildToward(c, p)
        y == ChildToward(c, q)
    IN  /\ p # q
        /\ c # q
        /\ c # p =>
              \/ IsFile(x) /\ ~IsFile(y)
              \/ IsFile(x) = IsFile(y) /\ NameLess(FileName(x), FileName(y))

\* C8: the lines of linecount_verbose come in depth-first order: a directory's
\* header, then its files by ascending name, then its subdirectories by
\* ascending name, each with its whole block
C8_DepthFirstOrder ==
    mode = "verbose" =>
        /\ \A i, j \in 1..Len(out) : i < j => Precedes(out[i].path, out[j].path)
        /\ \A j \in 1..Len(out) :
              out[j].path # Root =>
                  \E i \in 1..(j - 1) :
                      out[i].kind = "dir" /\ out[i].path = Parent(out[j].path)
        /\ \A j \in 1..Len(out) : (out[j].kind = "file") = IsFile(out[j].path)

C8_Witness ==
    /\ mode = "verbose" /\ result.kind = "ok"
    /\ [i \in 1..Len(out) |-> out[i].path] =
         << Root, <<nA>>, <<nS>>, <<nD>>, <<nD, nB>>, <<nD, nC>>, <<nD, nE>>,
            <<nD, nE, nA>> >>

\* C9 (as claimed): no entry whose name begins with '.' gets a line of its
\* own, its lines and bytes are still in the totals, and every visible entry
\* gets exactly one line
C9_HiddenCountedNotPrinted ==
    (mode = "verbose" /\ NoFault /\ GitignoresValid) =>
        /\ \A i \in 1..Len(out) : out[i].path # Root => is_visible(out[i].path)
        /\ Finished =>
              /\ result.kind = "ok"
              /\ result.lines = SumLines(AllFiles)
              /\ \A p \in (FileSlots \cup DirSlots) :
                    (fs[p].kind # "absent" /\ Reachable(p) /\ is_visible(p))
                        => Cardinality({i \in 1..Len(out) : out[i].path = p}) = 1

\* the entry p has a line of its own in the output
HasLine(p) == \E i \in 1..Len(out) : out[i].path = p

\* the name of p is a line of the .gitignore of the directory that holds p
InOwnGitignore(p) == Contains(fetch_gitignore(Parent(p)).list, FileName(p))

\* the entries a finished traversal has visited whose names are not hidden
VisibleEntries ==
    {p \in FileSlots \cup DirSlots :
        fs[p].kind # "absent" /\ Reachable(p) /\ is_visible(p)}

\* C11 (as claimed): with ignore_toggle an entry, file or directory, is left
\* out of the output exactly when its name is a line of the .gitignore of its
\* own directory, and without ignore_toggle no entry is left out
C11_ExcludedIffInOwnGitignore ==
    (mode = "verbose" /\ Finished /\ NoFault /\ GitignoresValid) =>
        \A p \in VisibleEntries :
            HasLine(p) <=> ~(ignore_toggle /\ InOwnGitignore(p))

\* what linecount_verbose does instead: a file is left out when its name is
\* in the .gitignore of its own directory, whatever ignore_toggle is (and
\* never because of the .gitignore of an ancestor), and a directory is never
\* left out
GitignoreHidesFilesOnly ==
    (mode = "verbose" /\ Finished /\ NoFault /\ GitignoresValid) =>
        \A p \in VisibleEntries :
            HasLine(p) <=> ~(IsFile(p) /\ InOwnGitignore(p))

\* a directory named in the .gitignore of the root has been rendered while a
\* file named there has not, and a file of the same name further down has
GitignoreHidesFilesOnly_Witness ==
    /\ mode = "verbose" /\ Finished /\ NoFault /\ GitignoresValid
    /\ ignore_toggle
    /\ IsFile(<<nA>>) /\ InOwnGitignore(<<nA>>) /\ ~HasLine(<<nA>>)
    /\ InOwnGitignore(<<nD>>) /\ HasLine(<<nD>>)
    /\ HasLine(<<nD, nE, nA>>)

(***************************************************************************)
(* One file measured on its own: the file branch of the loop applied to    *)
(* every content up to MaxLen bytes.                                       *)
(***************************************************************************)
ByteAlphabet == {LF, CR, 97, 98, 195, 169, 255}

EmptyTree == TreeOf(Dir(TRUE), Absent, Absent, Absent, Absent, Absent, Absent,
                    Absent, Absent, Absent)

IdleTree ==
    /\ fs = EmptyTree
    /\ ignore_toggle = TRUE
    /\ stack = [t \in ThreadIds |-> <<>>]
    /\ ret = [t \in ThreadIds |-> NoResult]
    /\ out = <<>>
    /\ log = {}
    /\ lc_ret = NoResult
    /\ IdleAsync

InitFile ==
    /\ mode = "file"
    /\ bytes_in \in SeqsUpTo(ByteAlphabet, MaxLen)
    /\ byte_toggle \in BOOLEAN
    /\ measured = NoResult
    /\ IdleTree /\ IdleClass

\* let content = String::from_utf8_lossy(&fs::read(&entry)?).into_owned(); ...
MeasureFile ==
    /\ mode = "file" /\ measured = NoResult
    /\ measured' = Ok(FileMeasure(bytes_in, byte_toggle).lines,
                      FileMeasure(bytes_in, byte_toggle).bytes)
    /\ UNCHANGED <<treeVars, bytes_in, classVars>>

NextFile == MeasureFile

SpecFile == InitFile /\ [][NextFile]_vars

\* C7: a file's line count is the number of line terminators plus one for a
\* non-empty unterminated tail: empty content gives (0, 0), "a\nb" gives 2
\* lines and so does "a\nb\n"
C7_LineCountOfFile ==
    measured.kind = "ok" =>
        /\ measured.lines = LineCount(bytes_in)
        /\ bytes_in = <<>> => (measured.lines = 0 /\ measured.bytes = 0)
        /\ bytes_in = <<97, LF, 98>> => measured.lines = 2
        /\ bytes_in = <<97, LF, 98, LF>> => measured.lines = 2

C7_Witness ==
    /\ measured.kind = "ok"
    /\ bytes_in = <<97, LF, 98, LF>>
    /\ measured.lines = 2

(***************************************************************************)
(* Content::content_type                                                   *)
(***************************************************************************)
code_extensions ==
    { "c", "h", "cpp", "hpp", "cc", "cxx", "hh", "hxx", "cs", "java", "class",
      "jar", "kt", "kts", "js", "jsx", "mjs", "cjs", "ts", "tsx", "py", "pyc",
      "pyd", "pyo", "rb", "erb", "php", "phar", "go", "rs", "rlib", "swift",
      "dart", "scala", "lua", "r", "pl", "pm", "sql", "html", "htm", "xhtml",
      "xml", "css", "scss", "sass", "json", "yaml", "yml", "toml", "env", "ini",
      "cfg", "md", "rst", "cmake", "mk", "dockerfile", "dockerignore",
      "gitignore", "gitattributes" }

media_extensions ==
    { "png", "jpg", "jpeg", "gif", "bmp", "tiff", "tif", "webp", "svg", "ico",
      "heic", "avif", "mp3", "wav", "flac", "aac", "ogg", "opus", "m4a", "wma",
      "aiff", "alac", "amr", "mp4", "mkv", "avi", "mov", "wmv", "flv", "webm",
      "m4v", "mpeg", "mpg", "3gp", "ogv" }

executable_extensions ==
    { "exe", "bat", "cmd", "msi", "run", "out", "bin", "app", "jar", "sh",
      "bash", "zsh", "ps1", "psm1", "psd1" }

text_extensions ==
    { "txt", "md", "rtf", "csv", "log", "pdf", "doc", "docx", "odt", "tex",
      "pages" }

Categories ==
    {"CODE", "MEDIA", "EXECUTABLE", "NORMAL", "TEXT", "LICENSE", "MAKEFILE"}

\* the positions of the dots of a file name
Dots(name) == {i \in 1..Len(name) : SubSeq(name, i, i) = "."}

LastDot(name) == CHOOSE i \in Dots(name) : \A j \in Dots(name) : j <= i

\* Path::extension: what follows the last dot, unless there is no dot or the
\* only dot starts the name
HasExtension(name) == name # ".." /\ Dots(name) # {} /\ LastDot(name) > 1

\* self.extension().unwrap_or_default()
Extension(name) ==
    IF HasExtension(name) THEN SubSeq(name, LastDot(name) + 1, Len(name)) ELSE ""

\* The input of content_type: the file name, whether the bytes of its
\* extension are UTF-8 (OsStr::to_str), and what is_unix_executable returns
\* ("err" when the metadata cannot be read).
FileNames ==
    { "main.rs", "notes.md", "app.jar", "pic.png", "song.mp3", "run.sh",
      "a.out", "notes.txt", "report.pdf", "LICENSE", "Makefile", "README",
      "LICENSE.txt", "Makefile.mk", ".gitignore", ".env", "archive.tar.gz",
      "data.bin", "x.", "lib.rs.bak", "LICENSE.bin", "Makefile.png", "a.xyz" }

ClassifyInputs ==
    { i \in [name : FileNames, ext_utf8 : BOOLEAN, exec : {"true", "false", "err"}] :
        ~i.ext_utf8 => HasExtension(i.name) }

\* the if / else-if chain of content_type; "panic" is an unwrap() on None or Err
content_type(i) ==
    LET ext == Extension(i.name)
    IN  IF ~i.ext_utf8 THEN "panic"
        ELSE IF ext \in code_extensions THEN "CODE"
        ELSE IF ext \in media_extensions THEN "MEDIA"
        ELSE IF ext \in executable_extensions THEN "EXECUTABLE"
        ELSE IF i.exec = "err" THEN "panic"
        ELSE IF i.exec = "true" /\ ext \notin text_extensions THEN "EXECUTABLE"
        ELSE IF ext \in text_extensions THEN "TEXT"
        ELSE IF i.name = "LICENSE" THEN "LICENSE"
        ELSE IF i.name = "Makefile" THEN "MAKEFILE"
        ELSE "NORMAL"

InitClassify ==
    /\ mode = "classify"
    /\ cin \in ClassifyInputs
    /\ cout = None
    /\ byte_toggle = TRUE
    /\ IdleTree /\ IdleFile

Classify ==
    /\ mode = "classify" /\ cout = None
    /\ cout' = content_type(cin)
    /\ UNCHANGED <<treeVars, fileVars, cin>>

NextClassify == Classify

SpecClassify == InitClassify /\ [][NextClassify]_vars

\* the category the rules of the claim give, first match first
RuleOf(ext, name, x) ==
    CASE ext \in code_extensions -> "CODE"
      [] ext \notin code_extensions /\ ext \in media_extensions -> "MEDIA"
      [] ext \notin (code_extensions \cup media_extensions)
         /\ (ext \in executable_extensions \/ (x /\ ext \notin text_extensions))
            -> "EXECUTABLE"
      [] ext \notin (code_extensions \cup media_extensions \cup executable_extensions)
         /\ ext \in text_extensions -> "TEXT"
      [] OTHER -> IF name = "LICENSE" THEN "LICENSE"
                  ELSE IF name = "Makefile" THEN "MAKEFILE"
                  ELSE "NORMAL"

\* C10 (as claimed): content_type returns a category for every input, without
\* failing, and the category is that of the first rule that matches
C10_ClassifyTotal ==
    cout # None =>
        /\ cout \in Categories
        /\ cin.exec # "err" =>
              cout = RuleOf(Extension(cin.name), cin.name, cin.exec = "true")

\* what remains true of content_type: whenever the extension is UTF-8 and the
\* metadata can be read, the result is the category of the first matching rule
ClassifyFirstMatch ==
    (cout # None /\ cin.ext_utf8 /\ cin.exec # "err") =>
        /\ cout = RuleOf(Extension(cin.name), cin.name, cin.exec = "true")
        /\ Extension(cin.name) \in {"md", "jar"} => cout = "CODE"
        /\ (cin.name \in {"LICENSE", "Makefile"} /\ cin.exec = "true")
              => cout = "EXECUTABLE"

(***************************************************************************)
(* linecount_verbose_async (main.rs:374-537, commented out in the source): *)
(* the loop of linecount_verbose with one thread spawned per subdirectory, *)
(* each adding the result of linecount_verbose(subdirectory) to the shared *)
(* accumulators.  To compare it with linecount_verbose the two are run     *)
(* one after the other on the same tree: first linecount_verbose(root),    *)
(* whose result is kept in result, then linecount_verbose_async(root).     *)
(***************************************************************************)
Spawned == ThreadIds \ {Root}

\* a thread has run to its end, normally or by a panic
ThreadOver(t) == tpc[t] = "done" \/ ret[t].kind = "panic"

ALoop == mode = "async" /\ apc = "loop" /\ aresult = NoResult
AAtEntry == ALoop /\ Top(Root).idx <= Len(Top(Root).seq)
ALoopOver == ALoop /\ Top(Root).idx > Len(Top(Root).seq)

\* the head of linecount_verbose_async: as in linecount_verbose
AStart ==
    /\ mode = "async" /\ apc = "idle"
    /\ result # NoResult /\ aresult = NoResult
    /\ CASE Enter(Root) = "err" ->
                /\ aresult' = ErrResult
                /\ apc' = "done"
                /\ UNCHANGED <<stack, out>>
         [] Enter(Root) = "panic" ->
                /\ out' = Append(out, HeaderLine(Root))
                /\ aresult' = PanicResult
                /\ apc' = "done"
                /\ UNCHANGED stack
         [] Enter(Root) = "listed" ->
                /\ out' = Append(out, HeaderLine(Root))
                /\ stack' = [stack EXCEPT ![Root] =
                                <<VFrame(Root, fetch_gitignore(Root).list)>>]
                /\ apc' = "loop"
                /\ UNCHANGED aresult
    /\ UNCHANGED <<fs, mode, byte_toggle, ignore_toggle, log, ret, acc,
                   handles, tpc, fileVars, classVars, lc_ret>>

\* *total_lines.lock().unwrap() += file_linecount; and the same for the
\* bytes under byte_toggle.  The files come before every directory in
\* sorted_entries, so no thread exists yet between the two locks.
AFile ==
    /\ AAtEntry
    /\ fs[Entry(Root)].kind = "file" /\ fs[Entry(Root)].ok
    /\ LET m == FileMeasure(fs[Entry(Root)].raw, byte_toggle)
       IN  /\ acc' = [lines |-> acc.lines + m.lines, bytes |-> acc.bytes + m.bytes]
           /\ out' = IF Printed(Top(Root), Entry(Root))
                     THEN Append(out, FileLine(Entry(Root), m))
                     ELSE out
    /\ stack' = SetTop(Root, Advance(Top(Root)))
    /\ UNCHANGED <<fs, mode, byte_toggle, ignore_toggle, log, ret, apc,
                   handles, tpc, aresult, fileVars, classVars, lc_ret>>

\* fs::metadata(path)? or fs::read(&path)? fails: the function returns Err
\* without joining the threads it has spawned
AFail ==
    /\ AAtEntry
    /\ \/ fs[Entry(Root)].kind = "dangling"
       \/ fs[Entry(Root)].kind = "file" /\ ~fs[Entry(Root)].ok
    /\ aresult' = ErrResult
    /\ apc' = "done"
    /\ UNCHANGED <<fs, mode, byte_toggle, ignore_toggle, stack, out, log, ret,
                   acc, handles, tpc, fileVars, classVars, lc_ret>>

\* filetype.is_dir(): thread::spawn(..); handles.push(handle)
ASpawn ==
    /\ AAtEntry
    /\ fs[Entry(Root)].kind = "dir"
    /\ tpc' = [tpc EXCEPT ![Entry(Root)] = "spawned"]
    /\ handles' = Append(handles, Entry(Root))
    /\ stack' = SetTop(Root, Advance(Top(Root)))
    /\ UNCHANGED <<fs, mode, byte_toggle, ignore_toggle, out, log, ret, acc,
                   apc, aresult, fileVars, classVars, lc_ret>>

\* a buggy variant: the handle is dropped without waiting for its thread
AJoinNoWait ==
    /\ ALoopOver
    /\ handles # <<>>
    /\ handles' = Tail(handles)
    /\ UNCHANGED <<fs, mode, byte_toggle, ignore_toggle, stack, out, log, ret,
                   acc, apc, tpc, aresult, fileVars, classVars, lc_ret>>

\* for handle in handles { handle.join().unwrap(); }: blocks until the thread
\* is over and panics when the thread has panicked
AJoin ==
    /\ ALoopOver
    /\ handles # <<>>
    /\ ThreadOver(Head(handles))
    /\ IF ret[Head(handles)].kind = "panic"
       THEN /\ aresult' = PanicResult
            /\ apc' = "done"
            /\ UNCHANGED handles
       ELSE /\ handles' = Tail(handles)
            /\ UNCHANGED <<aresult, apc>>
    /\ UNCHANGED <<fs, mode, byte_toggle, ignore_toggle, stack, out, log, ret,
                   acc, tpc, fileVars, classVars, lc_ret>>

\* Ok(get_totals(total_lines, total_bytes))
AFinish ==
    /\ ALoopOver
    /\ handles = <<>>
    /\ aresult' = Ok(acc.lines, acc.bytes)
    /\ apc' = "done"
    /\ stack' = [stack EXCEPT ![Root] = <<>>]
    /\ UNCHANGED <<fs, mode, byte_toggle, ignore_toggle, out, log, ret, acc,
                   handles, tpc, fileVars, classVars, lc_ret>>

\* the closure starts: linecount_verbose(Some(path), ..) is entered
TStart(t) ==
    /\ mode = "async" /\ aresult = NoResult
    /\ tpc[t] = "spawned"
    /\ tpc' = [tpc EXCEPT ![t] = "run"]
    /\ CASE Enter(t) = "err" ->
                /\ ret' = [ret EXCEPT ![t] = ErrResult]
                /\ UNCHANGED <<stack, out>>
         [] Enter(t) = "panic" ->
                /\ out' = Append(out, HeaderLine(t))
                /\ ret' = [ret EXCEPT ![t] = PanicResult]
                /\ UNCHANGED stack
         [] Enter(t) = "listed" ->
                /\ out' = Append(out, HeaderLine(t))
                /\ stack' = [stack EXCEPT ![t] = <<VFrame(t, fetch_gitignore(t).list)>>]
                /\ UNCHANGED ret
    /\ UNCHANGED <<fs, mode, byte_toggle, ignore_toggle, log, acc, apc,
                   handles, aresult, fileVars, classVars, lc_ret>>

\* if let Ok((lines, bytes)) = recursive_lc: *total_lines.lock().unwrap() += lines
TAddLines(t) ==
    /\ mode = "async" /\ aresult = NoResult
    /\ tpc[t] = "run" /\ ret[t].kind = "ok"
    /\ acc' = [acc EXCEPT !.lines = @ + ret[t].lines]
    /\ tpc' = [tpc EXCEPT ![t] = IF byte_toggle THEN "lines_added" ELSE "done"]
    /\ UNCHANGED <<fs, mode, byte_toggle, ignore_toggle, stack, out, log, ret,
                   apc, handles, aresult, fileVars, classVars, lc_ret>>

\* if byte_toggle { *total_bytes.lock().unwrap() += bytes; }
TAddBytes(t) ==
    /\ mode = "async" /\ aresult = NoResult
    /\ tpc[t] = "lines_added"
    /\ acc' = [acc EXCEPT !.bytes = @ + ret[t].bytes]
    /\ tpc' = [tpc EXCEPT ![t] = "done"]
    /\ UNCHANGED <<fs, mode, byte_toggle, ignore_toggle, stack, out, log, ret,
                   apc, handles, aresult, fileVars, classVars, lc_ret>>

\* recursive_lc is Err: the closure ends without adding anything
TSkip(t) ==
    /\ mode = "async" /\ aresult = NoResult
    /\ tpc[t] = "run" /\ ret[t].kind = "err"
    /\ tpc' = [tpc EXCEPT ![t] = "done"]
    /\ UNCHANGED <<fs, mode, byte_toggle, ignore_toggle, stack, out, log, ret,
                   acc, apc, handles, aresult, fileVars, classVars, lc_ret>>

InitAsync ==
    /\ mode = "async"
    /\ InitRun

NextAsync ==
    \/ VStart \/ AStart \/ AFile \/ AFail \/ ASpawn \/ AJoin \/ AFinish
    \/ \E t \in ThreadIds :
          \/ VFile(t) \/ VFail(t) \/ VDir(t) \/ VDirErr(t) \/ VPanic(t)
          \/ VReturn(t)
    \/ \E t \in Spawned : TStart(t) \/ TAddLines(t) \/ TAddBytes(t) \/ TSkip(t)

SpecAsync == InitAsync /\ [][NextAsync]_vars

\* C5: whenever one of linecount_verbose and linecount_verbose_async returns
\* totals, so does the other and the totals are the same, under every
\* interleaving of the threads; and the accumulators are read for the result
\* only when every spawned thread is over
C5_AsyncMatchesSequential ==
    (mode = "async" /\ aresult # NoResult) =>
        /\ (aresult.kind = "ok" \/ result.kind = "ok") => aresult = result
        /\ aresult.kind = "ok" => \A t \in Spawned : tpc[t] \in {"idle", "done"}

C5_Witness ==
    /\ mode = "async" /\ byte_toggle
    /\ aresult.kind = "ok" /\ aresult = result
    /\ tpc[<<nD>>] = "done" /\ tpc[<<nS>>] = "done"
    /\ fs[<<nD, nE>>].kind = "dir"
    /\ aresult.lines = 10

(***************************************************************************)
(* linecount and then linecount_verbose on the same tree with the same     *)
(* byte_toggle: what the first returned is kept in lc_ret.                 *)
(***************************************************************************)
Again ==
    /\ mode = "silent" /\ ~Running(Root)
    /\ result # NoResult /\ lc_ret = NoResult
    /\ lc_ret' = result
    /\ mode' = "verbose"
    /\ ret' = [ret EXCEPT ![Root] = NoResult]
    /\ log' = {}
    /\ UNCHANGED <<fs, byte_toggle, ignore_toggle, stack, out, acc, apc, handles,
                   tpc, aresult, fileVars, classVars>>

InitBoth ==
    /\ mode = "silent"
    /\ InitRun

NextBoth ==
    \/ LcStart \/ LcFile \/ LcFail \/ LcDir \/ LcSkip \/ LcReturn
    \/ Again
    \/ VStart \/ VFile(Root) \/ VFail(Root) \/ VDir(Root) \/ VDirErr(Root)
    \/ VPanic(Root) \/ VReturn(Root)

SpecBoth == InitBoth /\ [][NextBoth]_vars

====
